---- MODULE Spec2Model ----
(***************************************************************************)
(* Backtest engine of xau-signal-tools (src/backtester.py) together with   *)
(* the helpers it calls (src/utils.py, src/signal_detector.py) and the     *)
(* settings it reads (src/config.py).                                      *)
(*                                                                         *)
(* Time is counted in whole minutes, prices in whole USD.  The two         *)
(* dataframes are read-only inputs of run_backtest and step i of the main  *)
(* loop reads nothing of the signal series beyond row i, so the model      *)
(* reveals the signal series one row per step; `df` keeps the three newest *)
(* rows, which are the lookback rows of the next step and whose last row   *)
(* is df.iloc[-1] when the loop ends.  Of the 1-minute frame a step reads  *)
(* only the rows its mask selects; the rows around current_time (before    *)
(* and after it) are drawn as the input of the step.                       *)
(*                                                                         *)
(* Fields an order only carries along (confidence, signal_details,         *)
(* pnl_percentage) are left out of the records.                            *)
(*                                                                         *)
(* The module holds several specifications over one set of variables:      *)
(*   Spec, SpecWindow, SpecExits   run_backtest under different settings   *)
(*                                 and 1-minute inputs                     *)
(*   SpecDetect                    SignalDetector.detect_signal            *)
(*   SpecStats                     calculate_pnl and calculate_win_rate    *)
(*   SpecLimiter                   RateLimiter shared by several threads   *)
(*   SpecGaps                      run_backtest over a signal series with  *)
(*                                 missing rows, the 1-minute series kept  *)
(*   SpecTrend                     calculate_supertrend_precision          *)
(*   SpecConfidence                SignalDetector._calculate_confidence    *)
(*   SpecScan                      scan_for_signals and the daemon's       *)
(*                                 _perform_auto_detection                 *)
(*   SpecDaemon                    DaemonScheduler.start() and the PID     *)
(*                                 file shared by several processes        *)
(* A specification keeps the variables of the other parts at their initial *)
(* values.                                                                 *)
(***************************************************************************)
EXTENDS Integers, Sequences, FiniteSets, TLC

\* ------------------------------------------------------------------ bounds
MaxBars == 6      \* rows of the signal series (the loop runs for rows 3..MaxBars-1)
MaxM1 == 1        \* 1-minute rows drawn around one signal bar
MaxPrice == 4     \* SpecDetect: open and close of a candle range over 1..MaxPrice
MaxTrades == 5    \* SpecStats: length of the list handed to calculate_win_rate
MaxClock == 4     \* SpecLimiter: no call starts after this time
MaxSeries == 4    \* SpecTrend: rows handed to calculate_supertrend_precision
MaxCandles == 2   \* SpecConfidence: candles handed to _calculate_confidence
MaxScan == 6      \* SpecScan: rows of the frame handed to scan_for_signals

\* ------------------------------------------------------- program constants
TP_AMOUNT == 6
SL_AMOUNT == 3

\* ------------------------------------------------------------------ inputs
Timeframes == {"1h"}
TimeoutHoursChoices == {0, 1, 2}
GapFactors == {1}                     \* distance of two signal rows, in periods
BarShapes == { <<91, 97>>, <<100, 103>>, <<94, 91>>, <<103, 85>> }          \* <<open, close>>
M1Shapes == { <<103, 97>>, <<97, 79>>, <<103, 79>>, <<97, 97>> }            \* <<high, low>>
M1Offsets == {0, 1}                   \* minutes relative to current_time
M1OffsetsEarly == {-1, 0}             \* the same, for SpecExits
WindowSeriesStarts == {720, 1200}     \* first signal row at 12:00 or at 20:00
WindowChoices == { << << 16, 0 >>, << 23, 0 >> >>, << << 23, 0 >>, << 0, 30 >> >> }
SupportedTimeframes == {"1m", "5m", "15m", "30m", "1h", "4h", "1d"}
PnlPrices == {91, 97, 103}            \* entry and exit prices for calculate_pnl
TradeKinds == { << "WIN", 6 >>, << "LOSS", -3 >>, << "LOSS", 2 >> }         \* <<result, pnl>>
Threads == {1, 2}                     \* threads sharing one RateLimiter
LimiterArgs == [max_calls |-> 2, period |-> 3]       \* RateLimiter(max_calls, period)
TrendShapes == { <<100, 102, 100, 102>>, <<103, 106, 103, 106>>,
                 <<104, 104, 100, 100>>, <<101, 110, 92, 101>> }            \* <<open, high, low, close>>
TrendArgs == [atr_period |-> 2, multiplier |-> << 1, 1 >>]   \* multiplier as <<numerator, denominator>>
Wicks == {0, 9}                       \* how far a wick reaches beyond the body
ConfShapes == { <<998, 1000>>, <<1000, 1003>>, <<1003, 1000>> }             \* <<open, close>>
StLines == {990, 996, 1001, 1004}     \* supertrend_line values
StartIndexes == {3, 4}                \* start_index of scan_for_signals
EndIndexes == { << >>, << 3 >>, << 4 >>, << 5 >> }     \* end_index, << >> for None
GapChoices == {1, 2}                  \* SpecGaps: distance of two signal rows, in periods
GapRowShapes == { <<103, 79>>, <<97, 97>> }          \* SpecGaps: <<high, low>> of a 1-minute row
GapTimeoutHours == {0, 1}             \* SpecGaps: TIMEOUT_HOURS
Procs == {1, 2, 3}                    \* SpecDaemon: pids of the processes that may call start()

VARIABLES
    ENABLE_TIMEOUT,             \* config.ENABLE_TIMEOUT
    TIMEOUT_HOURS,              \* config.TIMEOUT_HOURS
    ENABLE_SINGLE_ORDER_MODE,   \* config.ENABLE_SINGLE_ORDER_MODE
    timeframe,                  \* Backtester.timeframe
    df,                         \* the three newest rows of the signal series read so far
    current_index,              \* run_backtest's loop index
    active_orders,              \* Backtester.active_orders
    completed_orders,           \* Backtester.completed_orders
    pc,                         \* "init", "loop", "nodata", "returned", "aborted"
    returned,                   \* the list run_backtest returned
    checked,                    \* check_tp_sl_hit calls of the latest step
    admitted,                   \* entry_time of every order ever placed
    ENABLE_TIME_WINDOW,         \* config.ENABLE_TIME_WINDOW
    TRADE_START_TIME,           \* config.TRADE_START_TIME, "HH:MM" as <<HH, MM>>
    TRADE_END_TIME,             \* config.TRADE_END_TIME, "HH:MM" as <<HH, MM>>
    rejected,                   \* bar times of the signals the time window turned away
    detected,                   \* SpecDetect: what detect_signal returned for df
    pnl_pair,                   \* SpecStats: calculate_pnl of one entry/exit, both sides
    results,                    \* SpecStats: the list handed to calculate_win_rate
    stats,                      \* SpecStats: what calculate_win_rate returned
    clock,                      \* SpecLimiter: time.time()
    calls,                      \* SpecLimiter: RateLimiter.calls
    lock,                       \* SpecLimiter: the thread holding RateLimiter.lock
    tpc,                        \* SpecLimiter: where each thread is
    now,                        \* SpecLimiter: each thread's local `now`
    leaves,                     \* SpecLimiter: the time of every return from wait()
    answer,                     \* SpecLimiter: the latest introspection call and its result
    series,                     \* SpecTrend: the rows handed to calculate_supertrend_precision
    trend_df,                   \* SpecTrend: the rows it returned
    scored,                     \* SpecConfidence: the latest _calculate_confidence call and its result
    scanned,                    \* SpecScan: the latest scan, its detect_signal calls and its result
    df_1m_rows,                 \* SpecGaps: the rows of the 1-minute series up to the current bar
    pid_file,                   \* SpecDaemon: xau_daemon.pid, << >> while it does not exist
    status_file,                \* SpecDaemon: xau_daemon_status.json, << >> while it does not exist
    dpc                         \* SpecDaemon: where each process is in start()

config == << ENABLE_TIMEOUT, TIMEOUT_HOURS, ENABLE_SINGLE_ORDER_MODE, timeframe,
             ENABLE_TIME_WINDOW, TRADE_START_TIME, TRADE_END_TIME >>

detector == << detected >>

statistics == << pnl_pair, results, stats >>

limiter == << clock, calls, lock, tpc, now, leaves, answer >>

indicator == << series, trend_df >>

\* the parts outside the backtester, its detector, statistics and limiter
scorer == << scored >>

scanner == << scanned >>

precision == << df_1m_rows >>

daemon == << pid_file, status_file, dpc >>

tools == << indicator, scorer, scanner, precision, daemon >>

\* the backtester with its detector, its statistics and the limiter
core == << config, df, current_index, active_orders, completed_orders, pc, returned,
           checked, admitted, rejected, detector, statistics, limiter >>

vars == << core, tools >>

\* ----------------------------------------------------------------- helpers
Range(s) == { s[i] : i \in 1..Len(s) }

Bar(ts, shape) == [timestamp |-> ts, open |-> shape[1], close |-> shape[2]]

Candle1m(ts, shape) == [timestamp |-> ts, high |-> shape[1], low |-> shape[2]]

\* utils.py
\* variant: every candle that moved counts as green
is_green_candle_moved(candle) == candle.close # candle.open

is_green_candle(candle) == candle.close > candle.open

is_red_candle(candle) == candle.close < candle.open

get_candle_body_range(candle) ==
    IF candle.close >= candle.open THEN candle.close - candle.open
                                   ELSE candle.open - candle.close

Abs(x) == IF x >= 0 THEN x ELSE -x

\* variant: SHORT prices not mirrored
calculate_tp_sl_prices_unmirrored(entry_price, signal_type) ==
    [tp_price |-> entry_price + TP_AMOUNT, sl_price |-> entry_price - SL_AMOUNT]

calculate_tp_sl_prices(entry_price, signal_type) ==
    IF signal_type = "LONG"
    THEN [tp_price |-> entry_price + TP_AMOUNT, sl_price |-> entry_price - SL_AMOUNT]
    ELSE [tp_price |-> entry_price - TP_AMOUNT, sl_price |-> entry_price + SL_AMOUNT]

NoHit == [hit_type |-> "None"]

Hit(hit_type, exit_price) == [hit_type |-> hit_type, exit_price |-> exit_price]

\* variant: the stop-loss branch tested before the take-profit branch
check_tp_sl_hit_sl_first(candle, tp_price, sl_price, signal_type) ==
    IF signal_type = "LONG"
    THEN IF candle.low <= sl_price THEN Hit("SL", sl_price)
         ELSE IF candle.high >= tp_price THEN Hit("TP", tp_price)
         ELSE NoHit
    ELSE IF candle.high >= sl_price THEN Hit("SL", sl_price)
         ELSE IF candle.low <= tp_price THEN Hit("TP", tp_price)
         ELSE NoHit

check_tp_sl_hit(candle, tp_price, sl_price, signal_type) ==
    IF signal_type = "LONG"
    THEN IF candle.high >= tp_price THEN Hit("TP", tp_price)
         ELSE IF candle.low <= sl_price THEN Hit("SL", sl_price)
         ELSE NoHit
    ELSE IF candle.low <= tp_price THEN Hit("TP", tp_price)
         ELSE IF candle.high >= sl_price THEN Hit("SL", sl_price)
         ELSE NoHit

\* variant: the side is not looked at
calculate_pnl_one_sided(entry_price, exit_price, signal_type) ==
    exit_price - entry_price

calculate_pnl(entry_price, exit_price, signal_type) ==
    IF signal_type = "LONG" THEN exit_price - entry_price
                            ELSE entry_price - exit_price

\* a / b of two numbers, kept as the exact fraction << a, b >>
Ratio(a, b) == << a, b >>

RECURSIVE SumPnl(_)
SumPnl(rs) == IF rs = << >> THEN 0 ELSE Head(rs).pnl + SumPnl(Tail(rs))

\* variant: a trade counts as won when its pnl is positive
calculate_win_rate_by_pnl(rs) ==
    IF rs = << >>
    THEN [total_trades |-> 0, wins |-> 0, losses |-> 0, win_rate |-> Ratio(0, 1),
          total_pnl |-> 0, avg_win |-> Ratio(0, 1), avg_loss |-> Ratio(0, 1)]
    ELSE LET IsWin(r) == r.pnl > 0
             IsLoss(r) == r.result = "LOSS"
             total_trades == Len(rs)
             wins == Len(SelectSeq(rs, IsWin))
             win_pnls == SelectSeq(rs, IsWin)
             loss_pnls == SelectSeq(rs, IsLoss)
         IN  [total_trades |-> total_trades,
              wins |-> wins,
              losses |-> total_trades - wins,
              win_rate |-> Ratio(wins * 100, total_trades),
              total_pnl |-> SumPnl(rs),
              avg_win |-> IF win_pnls # << >> THEN Ratio(SumPnl(win_pnls), Len(win_pnls))
                                              ELSE Ratio(0, 1),
              avg_loss |-> IF loss_pnls # << >> THEN Ratio(SumPnl(loss_pnls), Len(loss_pnls))
                                                ELSE Ratio(0, 1)]

\* the floats win_rate, avg_win and avg_loss are kept as exact fractions;
\* total_pnl_percentage sums a field the records here do not carry
calculate_win_rate(rs) ==
    IF rs = << >>
    THEN [total_trades |-> 0, wins |-> 0, losses |-> 0, win_rate |-> Ratio(0, 1),
          total_pnl |-> 0, avg_win |-> Ratio(0, 1), avg_loss |-> Ratio(0, 1)]
    ELSE LET IsWin(r) == r.result = "WIN"
             IsLoss(r) == r.result = "LOSS"
             total_trades == Len(rs)
             wins == Len(SelectSeq(rs, IsWin))
             win_pnls == SelectSeq(rs, IsWin)
             loss_pnls == SelectSeq(rs, IsLoss)
         IN  [total_trades |-> total_trades,
              wins |-> wins,
              losses |-> total_trades - wins,
              win_rate |-> Ratio(wins * 100, total_trades),
              total_pnl |-> SumPnl(rs),
              avg_win |-> IF win_pnls # << >> THEN Ratio(SumPnl(win_pnls), Len(win_pnls))
                                              ELSE Ratio(0, 1),
              avg_loss |-> IF loss_pnls # << >> THEN Ratio(SumPnl(loss_pnls), Len(loss_pnls))
                                                ELSE Ratio(0, 1)]

\* RateLimiter.py
max_calls == LimiterArgs.max_calls

period == LimiterArgs.period

\* variant: the whole deque is dropped
Expired_all(deque, t) == Len(deque)

\* how many entries the popleft loop removes from the front at time t
Expired(deque, t) ==
    LET stops == { i \in 1..Len(deque) : t - deque[i] < period }
    IN  IF stops = {} THEN Len(deque)
        ELSE (CHOOSE i \in stops : \A j \in stops : i <= j) - 1

\* the deque after the popleft loop
Prune(deque, t) == SubSeq(deque, Expired(deque, t) + 1, Len(deque))

Max0(x) == IF x > 0 THEN x ELSE 0

\* "HH:MM".split(':') read as two integers, in minutes after midnight
MinutesOfDay(time_str) == time_str[1] * 60 + time_str[2]

\* timestamp.hour * 60 + timestamp.minute of a time counted in minutes
TimeOfDay(timestamp) == ((timestamp % 1440) \div 60) * 60 + (timestamp % 60)

\* variant: the answer of the except branch, whatever the time
is_within_trading_hours_always(timestamp, start_time_str, end_time_str) == TRUE

is_within_trading_hours(timestamp, start_time_str, end_time_str) ==
    LET start_minutes == MinutesOfDay(start_time_str)
        end_minutes == MinutesOfDay(end_time_str)
        current_minutes == TimeOfDay(timestamp)
    IN  IF end_minutes < start_minutes
        THEN current_minutes >= start_minutes \/ current_minutes <= end_minutes
        ELSE start_minutes <= current_minutes /\ current_minutes <= end_minutes

\* signal_detector.py
\* variant: the colours alone decide, open and close are not compared
_check_engulfing_pattern_colours(n1, n2) ==
    IF is_green_candle(n1) /\ is_red_candle(n2) THEN "SHORT"
    ELSE IF is_red_candle(n1) /\ is_green_candle(n2) THEN "LONG"
    ELSE "None"

_check_engulfing_pattern(n1, n2) ==
    IF is_green_candle(n1) /\ is_red_candle(n2) /\ n1.open > n2.close THEN "SHORT"
    ELSE IF is_red_candle(n1) /\ is_green_candle(n2) /\ n1.open < n2.close THEN "LONG"
    ELSE "None"

\* variant: the second body is not compared with the first
_check_inside_bar_pattern_any_n2(n1, n2, n3) ==
    LET n1_body_range == get_candle_body_range(n1)
        both_red == is_red_candle(n2) /\ is_red_candle(n3)
        both_green == is_green_candle(n2) /\ is_green_candle(n3)
        combined_range == IF both_red THEN Abs(n2.open - n3.close)
                                      ELSE Abs(n3.close - n2.open)
    IN  IF ~both_red /\ ~both_green THEN "None"
        ELSE IF n1_body_range >= combined_range THEN "None"
        ELSE IF is_green_candle(n1) /\ both_red THEN "SHORT"
        ELSE IF is_red_candle(n1) /\ both_green THEN "LONG"
        ELSE "None"

_check_inside_bar_pattern(n1, n2, n3) ==
    LET n1_body_range == get_candle_body_range(n1)
        n2_body_range == get_candle_body_range(n2)
        both_red == is_red_candle(n2) /\ is_red_candle(n3)
        both_green == is_green_candle(n2) /\ is_green_candle(n3)
        combined_range == IF both_red THEN Abs(n2.open - n3.close)
                                      ELSE Abs(n3.close - n2.open)
    IN  IF n2_body_range >= n1_body_range THEN "None"
        ELSE IF ~both_red /\ ~both_green THEN "None"
        ELSE IF n1_body_range >= combined_range THEN "None"
        ELSE IF is_green_candle(n1) /\ both_red THEN "SHORT"
        ELSE IF is_red_candle(n1) /\ both_green THEN "LONG"
        ELSE "None"

_check_prerequisite_conditions(n1, n2, n3) == TRUE

NoSignal == [signal_type |-> "None"]

detect_signal(n1, n2, n3) ==
    LET engulfing_signal == _check_engulfing_pattern(n2, n3)
        inside_bar_signal == _check_inside_bar_pattern(n1, n2, n3)
    IN  IF engulfing_signal # "None" /\ _check_prerequisite_conditions(n1, n2, n3)
        THEN [signal_type |-> engulfing_signal, condition |-> "ENGULFING",
              entry_price |-> n3.close, timestamp |-> n3.timestamp + 15]
        ELSE IF inside_bar_signal # "None" /\ _check_prerequisite_conditions(n1, n2, n3)
        THEN [signal_type |-> inside_bar_signal, condition |-> "INSIDE_BAR",
              entry_price |-> n3.close, timestamp |-> n3.timestamp + 15]
        ELSE NoSignal

\* backtester.py
_get_timeframe_minutes(timeframe_str) ==
    CASE timeframe_str = "1m" -> 1
      [] timeframe_str = "5m" -> 5
      [] timeframe_str = "15m" -> 15
      [] timeframe_str = "30m" -> 30
      [] timeframe_str = "1h" -> 60
      [] timeframe_str = "4h" -> 240
      [] timeframe_str = "1d" -> 1440
      [] OTHER -> 15


_place_order(signal, current_time) ==
    LET prices == calculate_tp_sl_prices(signal.entry_price, signal.signal_type)
    IN  [entry_time |-> current_time,
         signal_type |-> signal.signal_type,
         condition |-> signal.condition,
         entry_price |-> signal.entry_price,
         tp_price |-> prices.tp_price,
         sl_price |-> prices.sl_price]

\* variant: the single-order gate never closes
SingleOrderBlocks_off(orders) == FALSE

\* run_backtest, step 1: the single-order gate of a detected signal
SingleOrderBlocks(orders) == ENABLE_SINGLE_ORDER_MODE /\ Len(orders) > 0

\* run_backtest, step 1: the time-window gate of a detected signal
WindowBlocks(current_time) ==
    /\ ENABLE_TIME_WINDOW
    /\ ~is_within_trading_hours(current_time, TRADE_START_TIME, TRADE_END_TIME)

\* variant: a detected signal passes the single-order gate unasked
AfterAdmission_ungated(orders, signal, current_time) ==
    IF signal.signal_type = "None" THEN orders
    ELSE IF WindowBlocks(current_time) THEN orders
    ELSE Append(orders, _place_order(signal, current_time))

\* run_backtest, step 1: the active list after detection and admission
AfterAdmission(orders, signal, current_time) ==
    IF signal.signal_type = "None" THEN orders
    ELSE IF SingleOrderBlocks(orders) THEN orders
    ELSE IF WindowBlocks(current_time) THEN orders
    ELSE Append(orders, _place_order(signal, current_time))

\* variant: the age test without the TIMEOUT_HOURS > 0 guard
TimedOut_unguarded(order, current_time) ==
    current_time - order.entry_time >= TIMEOUT_HOURS * 60

\* _check_active_orders_with_1m_precision: the age test of one order
TimedOut(order, current_time) ==
    /\ TIMEOUT_HOURS > 0
    /\ current_time - order.entry_time >= TIMEOUT_HOURS * 60

\* variant: the verdict taken against the entry price instead of tp_price
TimeoutResult_vs_entry(order, exit_price) ==
    IF order.signal_type = "LONG"
    THEN IF exit_price >= order.entry_price THEN "WIN" ELSE "LOSS"
    ELSE IF exit_price <= order.entry_price THEN "WIN" ELSE "LOSS"

\* the WIN/LOSS verdict of a trade closed at a bar's close
TimeoutResult(order, exit_price) ==
    IF order.signal_type = "LONG"
    THEN IF exit_price >= order.tp_price THEN "WIN" ELSE "LOSS"
    ELSE IF exit_price <= order.tp_price THEN "WIN" ELSE "LOSS"

CompletedOrder(order, exit_time, exit_price, hit_type, result) ==
    [entry_time |-> order.entry_time,
     exit_time |-> exit_time,
     signal_type |-> order.signal_type,
     condition |-> order.condition,
     entry_price |-> order.entry_price,
     exit_price |-> exit_price,
     tp_price |-> order.tp_price,
     sl_price |-> order.sl_price,
     hit_type |-> hit_type,
     pnl |-> calculate_pnl(order.entry_price, exit_price, order.signal_type),
     result |-> result,
     duration_minutes |-> exit_time - order.entry_time]

\* the record of an order closed by age at the current signal bar
TimeoutRecord(order, candle) ==
    CompletedOrder(order, candle.timestamp, candle.close, "TIMEOUT",
                   TimeoutResult(order, candle.close))

\* variant: every hit is booked as a WIN
HitRecord_always_win(order, candle_1m, hit) ==
    CompletedOrder(order, candle_1m.timestamp, hit.exit_price, hit.hit_type, "WIN")

\* the record of an order closed by a TP/SL hit on a 1-minute row
HitRecord(order, candle_1m, hit) ==
    CompletedOrder(order, candle_1m.timestamp, hit.exit_price, hit.hit_type,
                   IF hit.hit_type = "TP" THEN "WIN" ELSE "LOSS")

\* variant: the mask without its upper end
WindowMask_open_end(ts, current_time, timeframe_minutes) ==
    ts > current_time - timeframe_minutes

\* mask_1m: the 1-minute rows of the period that ends at the current bar
WindowMask(ts, current_time, timeframe_minutes) ==
    ts > current_time - timeframe_minutes /\ ts <= current_time

\* the guard in front of check_tp_sl_hit inside the 1-minute loop
AfterEntry(candle_1m, order) == candle_1m.timestamp > order.entry_time

\* orders placed at (or after) the current bar wait for the next iteration
SkipThisStep(order, current_time) == order.entry_time >= current_time

\* the rows that reach check_tp_sl_hit for one order, up to its first hit
Consulted(order, current_time, df_1m, timeframe_minutes) ==
    LET InPeriod(c) == WindowMask(c.timestamp, current_time, timeframe_minutes)
        Usable(c) == AfterEntry(c, order)
        rows == SelectSeq(SelectSeq(df_1m, InPeriod), Usable)
        IsHit(c) == check_tp_sl_hit(c, order.tp_price, order.sl_price,
                                    order.signal_type).hit_type # "None"
        hits == { i \in 1..Len(rows) : IsHit(rows[i]) }
        last == IF hits = {} THEN Len(rows)
                ELSE CHOOSE i \in hits : \A j \in hits : i <= j
    IN  SubSeq(rows, 1, last)

\* what one pass of the loop over active_orders decides for one order
Resolve(order, current_candle, df_1m, timeframe_minutes) ==
    LET current_time == current_candle.timestamp
        rows == Consulted(order, current_time, df_1m, timeframe_minutes)
        hit == IF Len(rows) = 0 THEN NoHit
               ELSE check_tp_sl_hit(rows[Len(rows)], order.tp_price, order.sl_price,
                                    order.signal_type)
    IN  IF TimedOut(order, current_time)
        THEN [closed |-> TRUE, order |-> order, rows |-> << >>,
              record |-> TimeoutRecord(order, current_candle)]
        ELSE IF SkipThisStep(order, current_time)
        THEN [closed |-> FALSE, order |-> order, rows |-> << >>]
        ELSE IF hit.hit_type # "None"
        THEN [closed |-> TRUE, order |-> order, rows |-> rows,
              record |-> HitRecord(order, rows[Len(rows)], hit)]
        ELSE [closed |-> FALSE, order |-> order, rows |-> rows]

\* variant: nothing is removed
RemoveFirst_keeps(s, x) == s

\* list.remove: drops the first element equal to x
RemoveFirst(s, x) ==
    IF \E i \in 1..Len(s) : s[i] = x
    THEN LET k == CHOOSE i \in 1..Len(s) : s[i] = x /\ \A j \in 1..(i - 1) : s[j] # x
         IN  SubSeq(s, 1, k - 1) \o SubSeq(s, k + 1, Len(s))
    ELSE s

RECURSIVE RemoveAll(_, _)
RemoveAll(s, orders_to_remove) ==
    IF orders_to_remove = << >> THEN s
    ELSE RemoveAll(RemoveFirst(s, Head(orders_to_remove)), Tail(orders_to_remove))

\* _check_active_orders_with_1m_precision, as the new value of both lists
\* and the check_tp_sl_hit calls it made
CheckActiveOrders(orders, completed, current_candle, df_1m, timeframe_minutes) ==
    LET res == [i \in 1..Len(orders) |->
                   Resolve(orders[i], current_candle, df_1m, timeframe_minutes)]
        IsClosed(r) == r.closed
        closed == SelectSeq(res, IsClosed)
        records == [i \in 1..Len(closed) |-> closed[i].record]
        orders_to_remove == [i \in 1..Len(closed) |-> closed[i].order]
        Call(r, c) == [entry_time |-> r.order.entry_time,
                       signal_type |-> r.order.signal_type,
                       tp_price |-> r.order.tp_price,
                       sl_price |-> r.order.sl_price,
                       current_time |-> current_candle.timestamp,
                       candle |-> c,
                       result |-> check_tp_sl_hit(c, r.order.tp_price, r.order.sl_price,
                                                  r.order.signal_type)]
        made == UNION { { Call(res[i], res[i].rows[j]) : j \in 1..Len(res[i].rows) }
                        : i \in 1..Len(res) }
    IN  [active |-> RemoveAll(orders, orders_to_remove),
         completed |-> completed \o records,
         calls |-> made]


\* variant: the last remaining order is forgotten
_close_remaining_orders_short(orders, last_candle) ==
    [i \in 1..(Len(orders) - 1) |-> TimeoutRecord(orders[i], last_candle)]

\* _close_remaining_orders: the records appended for the orders still active
_close_remaining_orders(orders, last_candle) ==
    [i \in 1..Len(orders) |-> TimeoutRecord(orders[i], last_candle)]

\* ------------------------------------------------- the 1-minute input rows
RECURSIVE SortedSeq(_)
SortedSeq(S) ==
    IF S = {} THEN << >>
    ELSE LET m == CHOOSE x \in S : \A y \in S : x <= y
         IN  << m >> \o SortedSeq(S \ {m})

\* the rows of df_1m around current_time, in ascending order of timestamp
M1Frames(current_time, offsets) ==
    UNION { { [i \in 1..Len(SortedSeq(S)) |->
                  Candle1m(current_time + SortedSeq(S)[i], f[SortedSeq(S)[i]])]
              : f \in [S -> M1Shapes] }
            : S \in { T \in SUBSET offsets : Cardinality(T) <= MaxM1 } }

\* ------------------------------------------------------------------- Init
\* Backtester.__init__: both lists empty, nothing loaded yet
InitBacktest ==
    /\ df = << >>
    /\ current_index = 0
    /\ active_orders = << >>
    /\ completed_orders = << >>
    /\ pc = "init"
    /\ returned = << >>
    /\ checked = {}
    /\ admitted = {}
    /\ rejected = {}

\* config.py: the trading-hours window switched off, at its default hours
WindowOff ==
    /\ ENABLE_TIME_WINDOW = FALSE
    /\ TRADE_START_TIME = << 16, 0 >>
    /\ TRADE_END_TIME = << 23, 0 >>

\* SignalDetector: detect_signal not called yet
InitDetector == detected = << >>

\* no statistics computed yet
InitStatistics ==
    /\ pnl_pair = << >>
    /\ results = << >>
    /\ stats = << >>

\* RateLimiter.__init__: no call recorded, lock free, every thread outside
InitLimiter ==
    /\ clock = 0
    /\ calls = << >>
    /\ lock = 0
    /\ tpc = [t \in Threads |-> "idle"]
    /\ now = [t \in Threads |-> 0]
    /\ leaves = << >>
    /\ answer = << >>

\* calculate_supertrend_precision not called yet
InitIndicator ==
    /\ series = << >>
    /\ trend_df = << >>

\* _calculate_confidence not called yet
InitScorer == scored = << >>

\* nothing scanned yet
InitScanner == scanned = << >>

\* no 1-minute row read yet
InitPrecision == df_1m_rows = << >>

\* no daemon process exists, neither file has been written
InitDaemon ==
    /\ pid_file = << >>
    /\ status_file = << >>
    /\ dpc = [p \in Procs |-> "off"]

InitTools == InitIndicator /\ InitScorer /\ InitScanner /\ InitPrecision /\ InitDaemon

Init ==
    /\ ENABLE_TIMEOUT \in BOOLEAN
    /\ TIMEOUT_HOURS \in TimeoutHoursChoices
    /\ ENABLE_SINGLE_ORDER_MODE \in BOOLEAN
    /\ timeframe \in Timeframes
    /\ WindowOff
    /\ InitBacktest
    /\ InitDetector
    /\ InitStatistics
    /\ InitLimiter
    /\ InitTools

\* the time of the first row of the signal series; the time of day is read
\* only by the trading-hours window
SeriesStarts == IF ENABLE_TIME_WINDOW THEN WindowSeriesStarts ELSE {0}

\* run_backtest up to the loop: both frames loaded and non-empty, state reset
LoadData ==
    /\ pc = "init"
    /\ \E t0 \in SeriesStarts, s1 \in BarShapes, s2 \in BarShapes, s3 \in BarShapes :
         LET tfm == _get_timeframe_minutes(timeframe)
         IN  df' = << Bar(t0, s1), Bar(t0 + tfm, s2), Bar(t0 + 2 * tfm, s3) >>
    /\ active_orders' = << >>
    /\ completed_orders' = << >>
    /\ current_index' = 3
    /\ pc' = "loop"
    /\ UNCHANGED << config, returned, checked, admitted, rejected >>
    /\ UNCHANGED << detector, statistics, limiter, tools >>

\* run_backtest when df or df_1m is empty: return [] before the reset
LoadEmpty ==
    /\ pc = "init"
    /\ pc' = "nodata"
    /\ returned' = << >>
    /\ UNCHANGED << config, df, current_index, active_orders, completed_orders,
                    checked, admitted, rejected >>
    /\ UNCHANGED << detector, statistics, limiter, tools >>

\* some order gets as far as the 1-minute mask in this pass
ReadsFrame(orders, current_time) ==
    \E i \in 1..Len(orders) :
        ~TimedOut(orders[i], current_time) /\ ~SkipThisStep(orders[i], current_time)

\* one iteration of the main loop for the signal row at current_index, the
\* 1-minute rows around that row lying at the given offsets
StepOver(offsets) ==
    /\ pc = "loop"
    /\ current_index < MaxBars
    /\ \E k \in GapFactors, shape \in BarShapes :
         LET tfm == _get_timeframe_minutes(timeframe)
             current_candle == Bar(df[3].timestamp + k * tfm, shape)
             current_time == current_candle.timestamp
             signal == detect_signal(df[1], df[2], df[3])
             orders == AfterAdmission(active_orders, signal, current_time)
         IN  \E df_1m \in (IF ReadsFrame(orders, current_time)
                            THEN M1Frames(current_time, offsets) ELSE { << >> }) :
               LET out == CheckActiveOrders(orders, completed_orders, current_candle,
                                            df_1m, tfm)
               IN  /\ active_orders' = out.active
                   /\ completed_orders' = out.completed
                   /\ checked' = out.calls
                   /\ admitted' = IF Len(orders) > Len(active_orders)
                                  THEN admitted \cup {current_time} ELSE admitted
                   /\ rejected' = IF /\ signal.signal_type # "None"
                                     /\ ~SingleOrderBlocks(active_orders)
                                     /\ WindowBlocks(current_time)
                                  THEN rejected \cup {current_time} ELSE rejected
                   /\ df' = << df[2], df[3], current_candle >>
    /\ current_index' = current_index + 1
    /\ UNCHANGED << config, pc, returned >>
    /\ UNCHANGED << detector, statistics, limiter, tools >>

\* rows at the current bar's own minute and right after it
Step == StepOver(M1Offsets)

\* rows at the current bar's own minute and right before it
StepEarly == StepOver(M1OffsetsEarly)

\* the loop ends at the last row: forced close when ENABLE_TIMEOUT, then return
Finish ==
    /\ pc = "loop"
    /\ IF ENABLE_TIMEOUT
       THEN /\ completed_orders' =
                 completed_orders \o _close_remaining_orders(active_orders, df[3])
            /\ active_orders' = << >>
       ELSE UNCHANGED << active_orders, completed_orders >>
    /\ returned' = completed_orders'
    /\ pc' = "returned"
    /\ UNCHANGED << config, df, current_index, checked, admitted, rejected >>
    /\ UNCHANGED << detector, statistics, limiter, tools >>

\* an exception raised while the row at current_index is processed (in
\* detect_signal, before any order is touched): logged, and [] is returned
RaiseInStep ==
    /\ pc = "loop"
    /\ current_index < MaxBars
    /\ returned' = << >>
    /\ pc' = "aborted"
    /\ UNCHANGED << config, df, current_index, active_orders, completed_orders,
                    checked, admitted, rejected >>
    /\ UNCHANGED << detector, statistics, limiter, tools >>

Next == LoadData \/ LoadEmpty \/ Step \/ Finish \/ RaiseInStep

Spec == Init /\ [][Next]_vars


\* ------------------------------------------------------------- SpecWindow
\* run_backtest with the trading-hours window switched on
InitWindow ==
    /\ ENABLE_TIMEOUT = TRUE
    /\ TIMEOUT_HOURS = 0
    /\ ENABLE_SINGLE_ORDER_MODE \in BOOLEAN
    /\ timeframe \in Timeframes
    /\ ENABLE_TIME_WINDOW = TRUE
    /\ \E w \in WindowChoices : TRADE_START_TIME = w[1] /\ TRADE_END_TIME = w[2]
    /\ InitBacktest
    /\ InitDetector
    /\ InitStatistics
    /\ InitLimiter
    /\ InitTools

SpecWindow == InitWindow /\ [][Next]_vars

\* -------------------------------------------------------------- SpecExits
\* run_backtest with several orders at a time, the 1-minute rows of a step
\* lying at the bar's own minute and the minute before it
InitExits ==
    /\ ENABLE_TIMEOUT \in BOOLEAN
    /\ TIMEOUT_HOURS \in {0, 2}
    /\ ENABLE_SINGLE_ORDER_MODE = FALSE
    /\ timeframe \in Timeframes
    /\ WindowOff
    /\ InitBacktest
    /\ InitDetector
    /\ InitStatistics
    /\ InitLimiter
    /\ InitTools

NextExits == LoadData \/ LoadEmpty \/ StepEarly \/ Finish \/ RaiseInStep

SpecExits == InitExits /\ [][NextExits]_vars

\* ------------------------------------------------------------- SpecDetect
\* the candles detect_signal is tried on
DetectShapes == { << o, c >> : o \in 1..MaxPrice, c \in 1..MaxPrice }

\* a backtester built for some timeframe holds a window of three rows
InitDetect ==
    /\ ENABLE_TIMEOUT = TRUE
    /\ TIMEOUT_HOURS = 0
    /\ ENABLE_SINGLE_ORDER_MODE = FALSE
    /\ timeframe \in SupportedTimeframes
    /\ WindowOff
    /\ \E s1 \in DetectShapes, s2 \in DetectShapes, s3 \in DetectShapes :
          LET tfm == _get_timeframe_minutes(timeframe)
          IN  df = << Bar(0, s1), Bar(tfm, s2), Bar(2 * tfm, s3) >>
    /\ current_index = 3
    /\ active_orders = << >>
    /\ completed_orders = << >>
    /\ pc = "loop"
    /\ returned = << >>
    /\ checked = {}
    /\ admitted = {}
    /\ rejected = {}
    /\ InitDetector
    /\ InitStatistics
    /\ InitLimiter
    /\ InitTools

\* run_backtest line 106: detect_signal on the three lookback rows, with what
\* its two pattern tests answered
Detect ==
    /\ detected = << >>
    /\ Len(df) = 3
    /\ detected' = << [signal |-> detect_signal(df[1], df[2], df[3]),
                       engulfing |-> _check_engulfing_pattern(df[2], df[3]),
                       inside_bar |-> _check_inside_bar_pattern(df[1], df[2], df[3])] >>
    /\ UNCHANGED << config, df, current_index, active_orders, completed_orders, pc,
                    returned, checked, admitted, rejected >>
    /\ UNCHANGED << statistics, limiter, tools >>

NextDetect == Detect

SpecDetect == InitDetect /\ [][NextDetect]_vars


\* -------------------------------------------------------------- SpecStats
\* nothing loaded, nothing detected: only the statistics helpers are used
InitStats ==
    /\ ENABLE_TIMEOUT = TRUE
    /\ TIMEOUT_HOURS = 0
    /\ ENABLE_SINGLE_ORDER_MODE = FALSE
    /\ timeframe = "15m"
    /\ WindowOff
    /\ InitBacktest
    /\ InitDetector
    /\ InitStatistics
    /\ InitLimiter
    /\ InitTools

\* calculate_pnl for one entry and exit price, once for each side
CalcPnl ==
    /\ pnl_pair = << >>
    /\ \E entry_price \in PnlPrices, exit_price \in PnlPrices :
          pnl_pair' = << [entry_price |-> entry_price,
                          exit_price |-> exit_price,
                          long |-> calculate_pnl(entry_price, exit_price, "LONG"),
                          short |-> calculate_pnl(entry_price, exit_price, "SHORT")] >>
    /\ UNCHANGED << results, stats >>
    /\ UNCHANGED << config, df, current_index, active_orders, completed_orders, pc,
                    returned, checked, admitted, rejected >>
    /\ UNCHANGED << detector, limiter, tools >>

\* one more completed trade in the list that will be analysed
AddResult ==
    /\ stats = << >>
    /\ Len(results) < MaxTrades
    /\ \E k \in TradeKinds :
          results' = Append(results, [result |-> k[1], pnl |-> k[2]])
    /\ UNCHANGED << pnl_pair, stats >>
    /\ UNCHANGED << config, df, current_index, active_orders, completed_orders, pc,
                    returned, checked, admitted, rejected >>
    /\ UNCHANGED << detector, limiter, tools >>

\* calculate_win_rate(results)
Analyze ==
    /\ stats = << >>
    /\ stats' = << calculate_win_rate(results) >>
    /\ UNCHANGED << pnl_pair, results >>
    /\ UNCHANGED << config, df, current_index, active_orders, completed_orders, pc,
                    returned, checked, admitted, rejected >>
    /\ UNCHANGED << detector, limiter, tools >>

NextStats == CalcPnl \/ AddResult \/ Analyze

SpecStats == InitStats /\ [][NextStats]_vars


\* ------------------------------------------------------------ SpecLimiter
\* one RateLimiter shared by the threads, nothing else in use
InitLimiterOnly ==
    /\ ENABLE_TIMEOUT = TRUE
    /\ TIMEOUT_HOURS = 0
    /\ ENABLE_SINGLE_ORDER_MODE = FALSE
    /\ timeframe = "15m"
    /\ WindowOff
    /\ InitBacktest
    /\ InitDetector
    /\ InitStatistics
    /\ InitLimiter
    /\ InitTools

\* everything but the limiter
rest == << config, df, current_index, active_orders, completed_orders, pc, returned,
           checked, admitted, rejected, detector, statistics, tools >>

\* time passes
Tick ==
    /\ clock < MaxClock
    /\ clock' = clock + 1
    /\ UNCHANGED << calls, lock, tpc, now, leaves, answer, rest >>

\* wait(), first half: take the lock, read the time, drop the expired calls
WaitEnter(t) ==
    /\ tpc[t] = "idle"
    /\ lock = 0
    /\ clock <= MaxClock
    /\ lock' = t
    /\ now' = [now EXCEPT ![t] = clock]
    /\ calls' = Prune(calls, clock)
    /\ tpc' = [tpc EXCEPT ![t] = "waiting"]
    /\ UNCHANGED << clock, leaves, answer, rest >>

\* wait(), second half: sleep when the window is full, record the call with
\* the time read before the sleep, release the lock and return
WaitLeave(t) ==
    /\ tpc[t] = "waiting"
    /\ LET sleep_time == IF Len(calls) >= max_calls
                         THEN period - (now[t] - calls[1]) ELSE 0
       IN  clock' = clock + Max0(sleep_time)
    /\ calls' = Append(calls, now[t])
    /\ lock' = 0
    /\ tpc' = [tpc EXCEPT ![t] = "idle"]
    /\ leaves' = Append(leaves, clock')
    /\ UNCHANGED << now, answer, rest >>

\* get_remaining_calls(): under the lock, drop the expired calls and answer
get_remaining_calls(t) ==
    /\ tpc[t] = "idle"
    /\ lock = 0
    /\ calls' = Prune(calls, clock)
    /\ answer' = << [op |-> "get_remaining_calls",
                     dropped |-> Expired(calls, clock),
                     value |-> Max0(max_calls - Len(calls'))] >>
    /\ UNCHANGED << clock, lock, tpc, now, leaves, rest >>

\* get_reset_time(): under the lock, answer from the oldest recorded call
get_reset_time(t) ==
    /\ tpc[t] = "idle"
    /\ lock = 0
    /\ answer' = << [op |-> "get_reset_time",
                     dropped |-> 0,
                     value |-> IF calls = << >> THEN 0
                               ELSE Max0(period - (clock - calls[1]))] >>
    /\ UNCHANGED << clock, calls, lock, tpc, now, leaves, rest >>

NextLimiter ==
    \/ Tick
    \/ \E t \in Threads : WaitEnter(t)
    \/ \E t \in Threads : WaitLeave(t)
    \/ \E t \in Threads : get_remaining_calls(t)
    \/ \E t \in Threads : get_reset_time(t)

SpecLimiter == InitLimiterOnly /\ [][NextLimiter]_vars


\* -------------------------------------------------------------- SpecTrend
\* calculate_supertrend_precision with atr_method = 'sma'. Prices are whole
\* numbers; a band is kept as its numerator over BandUnit, so that hl2, the
\* rolling mean and the multiplier stay exact.
atr_period == TrendArgs.atr_period

multiplier == TrendArgs.multiplier

BandUnit == 2 * atr_period * multiplier[2]

TrendBar(ts, shape) ==
    [timestamp |-> ts, open |-> shape[1], high |-> shape[2], low |-> shape[3],
     close |-> shape[4]]

Max2(a, b) == IF a >= b THEN a ELSE b

Min2(a, b) == IF a <= b THEN a ELSE b

\* df['tr']: the true range of row i, high - low for the first row
TrueRange(rows, i) ==
    IF i = 1 THEN rows[1].high - rows[1].low
    ELSE Max2(rows[i].high - rows[i].low,
              Max2(Abs(rows[i].high - rows[i - 1].close),
                   Abs(rows[i].low - rows[i - 1].close)))

RECURSIVE SumTrueRange(_, _, _)
SumTrueRange(rows, from, to) ==
    IF from > to THEN 0
    ELSE TrueRange(rows, to) + SumTrueRange(rows, from, to - 1)

\* df['atr'] times atr_period: the rolling mean, the row's own true range
\* while the rolling window is not full yet
AtrTimesPeriod(rows, i) ==
    IF i >= atr_period THEN SumTrueRange(rows, i - atr_period + 1, i)
    ELSE atr_period * TrueRange(rows, i)

\* df['hl2'] in band units
Hl2(rows, i) == (rows[i].high + rows[i].low) * atr_period * multiplier[2]

basic_up(rows, i) == Hl2(rows, i) - 2 * multiplier[1] * AtrTimesPeriod(rows, i)

basic_dn(rows, i) == Hl2(rows, i) + 2 * multiplier[1] * AtrTimesPeriod(rows, i)

\* variant: the top of the wick instead of the top of the body
candle_body_top_wick(row) == row.high

candle_body_top(row) == Max2(row.close, row.open)

candle_body_bottom(row) == Min2(row.close, row.open)

\* the first row: both final bands are the basic bands, the trend is down
FirstTrendRow(rows) ==
    [up |-> basic_up(rows, 1), dn |-> basic_dn(rows, 1), trend |-> -1]

\* one pass of the loop body: row i from the finished row i - 1
NextTrendRow(rows, i, prev) ==
    LET prev_close == rows[i - 1].close * BandUnit
        final_up == IF prev_close > prev.up THEN Max2(basic_up(rows, i), prev.up)
                    ELSE basic_up(rows, i)
        final_dn == IF prev_close < prev.dn THEN Min2(basic_dn(rows, i), prev.dn)
                    ELSE basic_dn(rows, i)
        new_trend == IF prev.trend = -1
                     THEN (IF candle_body_top(rows[i]) * BandUnit > prev.dn
                           THEN 1 ELSE prev.trend)
                     ELSE (IF candle_body_bottom(rows[i]) * BandUnit < prev.up
                           THEN -1 ELSE prev.trend)
    IN  [up |-> final_up, dn |-> final_dn, trend |-> new_trend]

RECURSIVE TrendRows(_, _)
TrendRows(rows, n) ==
    IF n = 0 THEN << >>
    ELSE IF n = 1 THEN << FirstTrendRow(rows) >>
    ELSE LET done == TrendRows(rows, n - 1)
         IN  Append(done, NextTrendRow(rows, n, done[n - 1]))

\* the frame the function returns: bands, trend, line and direction per row
calculate_supertrend_precision(rows) ==
    LET bands == TrendRows(rows, Len(rows))
    IN  [i \in 1..Len(rows) |->
            [timestamp |-> rows[i].timestamp,
             up |-> bands[i].up,
             dn |-> bands[i].dn,
             trend |-> bands[i].trend,
             supertrend_line |-> IF bands[i].trend = 1 THEN bands[i].up ELSE bands[i].dn,
             trend_direction |-> IF bands[i].trend = 1 THEN "UP" ELSE "DN"]]

\* nothing else in use: only the indicator is computed
InitTrend ==
    /\ ENABLE_TIMEOUT = TRUE
    /\ TIMEOUT_HOURS = 0
    /\ ENABLE_SINGLE_ORDER_MODE = FALSE
    /\ timeframe = "15m"
    /\ WindowOff
    /\ InitBacktest
    /\ InitDetector
    /\ InitStatistics
    /\ InitLimiter
    /\ InitTools

\* one more row arrives (ascending in time, as after sort_values) and the
\* indicator is computed over the whole series
ComputeTrend ==
    /\ Len(series) < MaxSeries
    /\ \E shape \in TrendShapes :
         /\ series' = Append(series, TrendBar(15 * Len(series), shape))
         /\ trend_df' = calculate_supertrend_precision(series')
    /\ UNCHANGED << core, scorer, scanner, precision, daemon >>

NextTrend == ComputeTrend

SpecTrend == InitTrend /\ [][NextTrend]_vars


\* --------------------------------------------------------- SpecConfidence
\* SignalDetector._calculate_confidence. supertrend_data is a function from
\* the timestamps that have trend data to [trend, supertrend_line]; the
\* percentage distance is kept as the exact fraction <<100 * distance, close>>.
base_confidence == 50

\* the distance of one candle's body to the line, 0 when the body touches it
BodyDistance(candle, st_data) ==
    LET body_top == Max2(candle.open, candle.close)
        body_bottom == Min2(candle.open, candle.close)
        candle_ref == IF st_data.trend = -1 THEN body_top ELSE body_bottom
    IN  IF \/ st_data.trend = -1 /\ body_top >= st_data.supertrend_line
           \/ st_data.trend = 1 /\ body_bottom <= st_data.supertrend_line
        THEN 0
        ELSE Abs(candle_ref - st_data.supertrend_line)

NoClosest == [found |-> FALSE]

\* the loop over candles: the first candle with the least distance_pct
RECURSIVE ClosestCandle(_, _, _)
ClosestCandle(candles, supertrend_data, best) ==
    IF candles = << >> THEN best
    ELSE LET candle == Head(candles)
         IN  IF candle.timestamp \notin DOMAIN supertrend_data
             THEN ClosestCandle(Tail(candles), supertrend_data, best)
             ELSE LET st_data == supertrend_data[candle.timestamp]
                      distance_pct == Ratio(100 * BodyDistance(candle, st_data),
                                            candle.close)
                      closer == \/ ~best.found
                                \/ distance_pct[1] * best.min_distance_pct[2]
                                       < best.min_distance_pct[1] * distance_pct[2]
                  IN  ClosestCandle(Tail(candles), supertrend_data,
                                    IF closer
                                    THEN [found |-> TRUE,
                                          min_distance_pct |-> distance_pct,
                                          st_trend |-> st_data.trend]
                                    ELSE best)

\* int(100 * (1 - min_distance_pct / 0.5)) clamped to 0..100, 0 from 0.5 % on
distance_confidence(min_distance_pct) ==
    IF 2 * min_distance_pct[1] >= min_distance_pct[2] THEN 0
    ELSE Max2(0, Min2((100 * min_distance_pct[2] - 200 * min_distance_pct[1])
                          \div min_distance_pct[2], 100))

\* variant: the result leaves unclamped
ClampConfidence_off(final_confidence) == final_confidence

\* the last assignment: max(min(final_confidence, 95), 10)
ClampConfidence(final_confidence) == Max2(Min2(final_confidence, 95), 10)

_calculate_confidence(signal_type, candles, pattern_type, supertrend_data) ==
    LET closest == ClosestCandle(candles, supertrend_data, NoClosest)
    IN  IF candles = << >> \/ ~closest.found THEN base_confidence
        ELSE LET score == distance_confidence(closest.min_distance_pct)
                 aligned == \/ signal_type = "LONG" /\ closest.st_trend = 1
                            \/ signal_type = "SHORT" /\ closest.st_trend = -1
                 adjusted == IF aligned THEN score ELSE Max2(score - 25, 10)
                 bonus == IF pattern_type = "ENGULFING" THEN Min2(adjusted + 5, 95)
                          ELSE adjusted
             IN  ClampConfidence(bonus)

\* the candle lists of one length, each candle with or without trend data
CandleLists(n) ==
    [1..n -> [shape : ConfShapes,
              data : { << >> } \cup { << [trend |-> t, supertrend_line |-> l] >> :
                                          t \in {-1, 1}, l \in StLines }]]

InitConfidence == InitTrend

\* one call of _calculate_confidence
Score ==
    /\ scored = << >>
    /\ \E n \in 0..MaxCandles, signal_type \in {"LONG", "SHORT"},
          pattern_type \in {"ENGULFING", "INSIDE_BAR"} :
          \E choice \in CandleLists(n) :
             LET candles == [i \in 1..n |-> Bar(15 * (i - 1), choice[i].shape)]
                 with_data == { i \in 1..n : choice[i].data # << >> }
                 supertrend_data == [ts \in { 15 * (i - 1) : i \in with_data } |->
                                        choice[(ts \div 15) + 1].data[1]]
             IN  scored' = << [signal_type |-> signal_type,
                               candles |-> candles,
                               pattern_type |-> pattern_type,
                               supertrend_data |-> supertrend_data,
                               confidence |-> _calculate_confidence(
                                   signal_type, candles, pattern_type,
                                   supertrend_data)] >>
    /\ UNCHANGED << core, indicator, scanner, precision, daemon >>

NextConfidence == Score

SpecConfidence == InitConfidence /\ [][NextConfidence]_vars


\* --------------------------------------------------------------- SpecScan
\* SignalDetector.scan_for_signals and the daemon's _perform_auto_detection.
\* The frame is sorted by timestamp descending: position 0 holds the latest
\* row, which in the daemon is the candle still being formed.

\* df.iloc[i] for a position counted from 0, negative positions from the end
iloc(frame, i) == IF i >= 0 THEN frame[i + 1] ELSE frame[Len(frame) + i + 1]

\* variant: the three rows that end at position i
LookbackAt_upto(frame, i) ==
    [i |-> i, n1 |-> iloc(frame, i), n2 |-> iloc(frame, i - 1),
     n3 |-> iloc(frame, i - 2)]

\* the three lookback rows scan_for_signals reads at position i
LookbackAt(frame, i) ==
    [i |-> i, n1 |-> iloc(frame, i - 1), n2 |-> iloc(frame, i - 2),
     n3 |-> iloc(frame, i - 3)]

IsSignal(signal) == signal.signal_type # "None"

scan_for_signals(frame, start_index, end_index) ==
    IF Len(frame) < start_index + 1
    THEN [calls |-> << >>, signals |-> << >>]
    ELSE LET end_point == IF end_index = << >> THEN Len(frame)
                          ELSE Min2(end_index[1] + 1, Len(frame))
             lookbacks == [k \in 1..Max0(end_point - start_index) |->
                              LookbackAt(frame, start_index + k - 1)]
             found == [k \in 1..Len(lookbacks) |->
                          detect_signal(lookbacks[k].n1, lookbacks[k].n2,
                                        lookbacks[k].n3)]
         IN  [calls |-> lookbacks, signals |-> SelectSeq(found, IsSignal)]

\* a frame of n rows one period apart, the latest first
DescendingFrames(n) ==
    { [k \in 1..n |-> Bar(15 * (n - k), shapes[k])] : shapes \in [1..n -> BarShapes] }

InitScan == InitTrend

\* one call of scan_for_signals on a frame sorted descending
Scan ==
    /\ scanned = << >>
    /\ \E n \in 0..MaxScan, start_index \in StartIndexes, end_index \in EndIndexes :
          \E frame \in DescendingFrames(n) :
             LET out == scan_for_signals(frame, start_index, end_index)
             IN  scanned' = << [caller |-> "scan",
                                df |-> frame,
                                start_index |-> start_index,
                                end_index |-> end_index,
                                calls |-> out.calls,
                                signals |-> out.signals,
                                result |-> out.signals] >>
    /\ UNCHANGED << core, indicator, scorer, precision, daemon >>

\* _perform_auto_detection: the frame loaded and sorted descending, nothing
\* detected on fewer than four rows, otherwise the scan of position 3 alone
\* and its first signal stamped with the time of the notification
AutoDetect ==
    /\ scanned = << >>
    /\ \E n \in 0..MaxScan :
          \E frame \in DescendingFrames(n) :
             LET out == IF n < 4 THEN [calls |-> << >>, signals |-> << >>]
                        ELSE scan_for_signals(frame, 3, << 3 >>)
                 entry_time == frame[1].timestamp + 1
                 latest_signal == [signal_type |-> out.signals[1].signal_type,
                                   condition |-> out.signals[1].condition,
                                   entry_price |-> out.signals[1].entry_price,
                                   timestamp |-> out.signals[1].timestamp,
                                   entry_time |-> entry_time]
             IN  scanned' = << [caller |-> "daemon",
                                df |-> frame,
                                start_index |-> 3,
                                end_index |-> << 3 >>,
                                calls |-> out.calls,
                                signals |-> out.signals,
                                result |-> IF out.signals # << >>
                                           THEN << latest_signal >> ELSE << >>] >>
    /\ UNCHANGED << core, indicator, scorer, precision, daemon >>

NextScan == Scan \/ AutoDetect

SpecScan == InitScan /\ [][NextScan]_vars


\* --------------------------------------------------------------- SpecGaps
\* The backtest over a signal series that may miss rows, with the 1-minute
\* series kept as a whole: df_1m_rows holds its rows up to the current signal
\* row, and every step hands all of them to the order check.
InitGaps ==
    /\ ENABLE_TIMEOUT = TRUE
    /\ TIMEOUT_HOURS \in GapTimeoutHours
    /\ ENABLE_SINGLE_ORDER_MODE = FALSE
    /\ timeframe \in Timeframes
    /\ WindowOff
    /\ InitBacktest
    /\ InitDetector
    /\ InitStatistics
    /\ InitLimiter
    /\ InitTools

\* the rows of the 1-minute series between two signal rows: none, or one
\* row in the minute after the earlier signal row
RowsBetween(previous_time, current_time) ==
    { << >> } \cup { << Candle1m(previous_time + 1, shape) >> : shape \in GapRowShapes }

\* one iteration of the main loop, the next signal row one period or more
\* after the previous one
StepGap ==
    /\ pc = "loop"
    /\ current_index < MaxBars
    /\ \E k \in GapChoices, shape \in BarShapes :
         LET tfm == _get_timeframe_minutes(timeframe)
             current_candle == Bar(df[3].timestamp + k * tfm, shape)
             current_time == current_candle.timestamp
             signal == detect_signal(df[1], df[2], df[3])
             orders == AfterAdmission(active_orders, signal, current_time)
         IN  \E fresh \in RowsBetween(df[3].timestamp, current_time) :
               LET out == CheckActiveOrders(orders, completed_orders, current_candle,
                                            df_1m_rows \o fresh, tfm)
               IN  /\ active_orders' = out.active
                   /\ completed_orders' = out.completed
                   /\ checked' = out.calls
                   /\ admitted' = IF Len(orders) > Len(active_orders)
                                  THEN admitted \cup {current_time} ELSE admitted
                   /\ rejected' = IF /\ signal.signal_type # "None"
                                     /\ ~SingleOrderBlocks(active_orders)
                                     /\ WindowBlocks(current_time)
                                  THEN rejected \cup {current_time} ELSE rejected
                   /\ df' = << df[2], df[3], current_candle >>
                   /\ df_1m_rows' = df_1m_rows \o fresh
    /\ current_index' = current_index + 1
    /\ UNCHANGED << config, pc, returned >>
    /\ UNCHANGED << detector, statistics, limiter, indicator, scorer, scanner, daemon >>

NextGaps == LoadData \/ LoadEmpty \/ StepGap \/ Finish \/ RaiseInStep

SpecGaps == InitGaps /\ [][NextGaps]_vars


\* ------------------------------------------------------------- SpecDaemon
\* DaemonScheduler.start() called by several processes that share the
\* working directory, and with it the PID file and the status file. A
\* process is at "start", past the is_running test ("checked"), past the
\* write of its pid ("written") or in _run_daemon_loop ("loop"); otherwise
\* it does not exist: never launched ("off"), or ended because start()
\* found a daemon running ("refused"), because the components could not be
\* initialised ("failed"), because start() caught an exception ("raised"),
\* or because the signal handler left with sys.exit ("exited").
Alive(p) == dpc[p] \in {"start", "checked", "written", "loop"}

\* is_running(): the PID file exists and os.kill(pid, 0) finds the process
is_running == pid_file # << >> /\ Alive(pid_file[1])

\* _update_status: the status file rewritten by process p
StatusBy(p, status) == << [status |-> status, pid |-> p] >>

InitDaemonOnly == InitTrend

\* `python scheduler.py start`: a new process reaches start()
Launch(p) ==
    /\ ~Alive(p)
    /\ dpc' = [dpc EXCEPT ![p] = "start"]
    /\ UNCHANGED << pid_file, status_file >>
    /\ UNCHANGED << core, indicator, scorer, scanner, precision >>

\* start(), lines 68-71: is_running() decides whether to go on; when it
\* answers True the call returns False and the process ends
CheckRunning(p) ==
    /\ dpc[p] = "start"
    /\ dpc' = [dpc EXCEPT ![p] = IF is_running THEN "refused" ELSE "checked"]
    /\ UNCHANGED << pid_file, status_file >>
    /\ UNCHANGED << core, indicator, scorer, scanner, precision >>

\* start(), lines 73-75: the PID file written with the process's own pid
WritePid(p) ==
    /\ dpc[p] = "checked"
    /\ pid_file' = << p >>
    /\ dpc' = [dpc EXCEPT ![p] = "written"]
    /\ UNCHANGED status_file
    /\ UNCHANGED << core, indicator, scorer, scanner, precision >>

\* start(), lines 77-96: the components initialised, the status file
\* written, the loop entered
EnterLoop(p) ==
    /\ dpc[p] = "written"
    /\ status_file' = StatusBy(p, "running")
    /\ dpc' = [dpc EXCEPT ![p] = "loop"]
    /\ UNCHANGED pid_file
    /\ UNCHANGED << core, indicator, scorer, scanner, precision >>

\* start(), lines 78-79: _initialize_components fails, start() returns False
\* and the process ends; nothing is cleaned up
InitializeFails(p) ==
    /\ dpc[p] = "written"
    /\ dpc' = [dpc EXCEPT ![p] = "failed"]
    /\ UNCHANGED << pid_file, status_file >>
    /\ UNCHANGED << core, indicator, scorer, scanner, precision >>

\* _cleanup: the PID file removed if it exists, the status file rewritten
_cleanup(p) ==
    /\ pid_file' = << >>
    /\ status_file' = StatusBy(p, "stopped")

\* start(), lines 100-103: an exception after the write of the pid
StartRaises(p) ==
    /\ dpc[p] = "written"
    /\ _cleanup(p)
    /\ dpc' = [dpc EXCEPT ![p] = "raised"]
    /\ UNCHANGED << core, indicator, scorer, scanner, precision >>

\* _signal_handler: SIGINT or SIGTERM reaches a process in the loop
Terminate(p) ==
    /\ dpc[p] = "loop"
    /\ _cleanup(p)
    /\ dpc' = [dpc EXCEPT ![p] = "exited"]
    /\ UNCHANGED << core, indicator, scorer, scanner, precision >>

NextDaemon ==
    \E p \in Procs :
        \/ Launch(p)
        \/ CheckRunning(p)
        \/ WritePid(p)
        \/ EnterLoop(p)
        \/ InitializeFails(p)
        \/ StartRaises(p)
        \/ Terminate(p)

SpecDaemon == InitDaemonOnly /\ [][NextDaemon]_vars


\* ================================================================= claims
IsTimeout(r) == r.hit_type = "TIMEOUT"

Completed == Range(completed_orders)

\* C1: every 1-minute row handed to check_tp_sl_hit for an order is strictly
\* later than that order's entry_time and not later than the current signal
\* bar, also when several orders with different entry times are active.
C1_NoLookahead ==
    \A c \in checked :
        /\ c.candle.timestamp > c.entry_time
        /\ c.candle.timestamp <= c.current_time

\* two orders with different entry times were both checked in the same step
C1_Witness ==
    \E c1 \in checked, c2 \in checked : c1.entry_time # c2.entry_time

\* C2: every record in completed_orders has exit_time strictly greater than
\* entry_time, whatever closed it (TP, SL, age, forced close at the end).
C2_ExitAfterEntry ==
    \A r \in Completed : r.exit_time > r.entry_time

\* C3: in single-order mode the active list never holds more than one order,
\* and a step that starts with an active order admits nothing.
C3_SingleOrder ==
    /\ [](ENABLE_SINGLE_ORDER_MODE => Len(active_orders) <= 1)
    /\ [][(ENABLE_SINGLE_ORDER_MODE /\ Len(active_orders) > 0)
              => admitted' = admitted]_vars

\* single-order mode, an engulfing signal was detected in the latest step
\* while an older order was (and still is) active, and nothing was admitted
C3_Witness ==
    /\ ENABLE_SINGLE_ORDER_MODE
    /\ pc = "loop"
    /\ current_index > 3
    /\ _check_engulfing_pattern(df[1], df[2]) # "None"
    /\ Len(active_orders) = 1
    /\ active_orders[1].entry_time < df[3].timestamp
    /\ df[3].timestamp \notin admitted

\* C4: every admitted order is in exactly one of active_orders and
\* completed_orders, at most once, and completed_orders only ever grows at
\* its end: a record, once appended, is neither changed nor removed.
C4_Lifecycle ==
    /\ [](\A e \in admitted :
            Cardinality({ i \in 1..Len(active_orders) : active_orders[i].entry_time = e })
            + Cardinality({ i \in 1..Len(completed_orders) :
                              completed_orders[i].entry_time = e }) = 1)
    /\ [][/\ Len(completed_orders') >= Len(completed_orders)
          /\ SubSeq(completed_orders', 1, Len(completed_orders)) = completed_orders]_vars

\* one admitted order is closed while another one is still active
C4_Witness ==
    /\ Len(completed_orders) > 0
    /\ Len(active_orders) > 0
    /\ Cardinality(admitted) >= 2

\* C5: when an exception ends the run, run_backtest returns the trades that
\* had been completed before the exception.
C5_PartialResults ==
    pc = "aborted" => returned = completed_orders

\* C6: with ENABLE_TIMEOUT, after a run without exception active_orders is
\* empty and every admitted order is in the returned list; the orders still
\* active after the last row are closed as TIMEOUT at that row's close price
\* and timestamp.
C6_ForcedClose ==
    /\ []((pc = "returned" /\ ENABLE_TIMEOUT) =>
            /\ active_orders = << >>
            /\ \A e \in admitted : \E r \in Range(returned) : r.entry_time = e)
    /\ [][(pc = "loop" /\ pc' = "returned" /\ ENABLE_TIMEOUT) =>
            \A i \in 1..Len(active_orders) :
               \E j \in (Len(completed_orders) + 1)..Len(completed_orders') :
                  /\ completed_orders'[j].entry_time = active_orders[i].entry_time
                  /\ completed_orders'[j].hit_type = "TIMEOUT"
                  /\ completed_orders'[j].exit_price = df[3].close
                  /\ completed_orders'[j].exit_time = df[3].timestamp]_vars

\* the run returned after force-closing an order that was younger than the
\* age limit (or no age limit was set)
C6_Witness ==
    /\ pc = "returned"
    /\ ENABLE_TIMEOUT
    /\ \E r \in Range(returned) :
          /\ IsTimeout(r)
          /\ r.exit_time = df[3].timestamp
          /\ r.entry_time < r.exit_time
          /\ (TIMEOUT_HOURS = 0 \/ r.duration_minutes < TIMEOUT_HOURS * 60)

\* C7 (as claimed): a TIMEOUT close in the main loop needs ENABLE_TIMEOUT and
\* an age of at least TIMEOUT_HOURS, and with ENABLE_TIMEOUT off no completed
\* trade has hit_type TIMEOUT.
C7_TimeoutNeedsEnable ==
    /\ (pc = "loop") =>
          \A r \in Completed :
             IsTimeout(r) => (ENABLE_TIMEOUT /\ r.duration_minutes >= TIMEOUT_HOURS * 60)
    /\ ~ENABLE_TIMEOUT => \A r \in Completed : ~IsTimeout(r)

\* C7 (amended): a TIMEOUT close in the main loop needs TIMEOUT_HOURS > 0 and
\* an age of at least TIMEOUT_HOURS, whatever ENABLE_TIMEOUT is (that switch
\* only governs the forced close at the end); so with ENABLE_TIMEOUT off and
\* TIMEOUT_HOURS = 0 no completed trade has hit_type TIMEOUT.
C7_TimeoutNeedsHours ==
    (pc \in {"loop", "aborted"} \/ ~ENABLE_TIMEOUT) =>
        \A r \in Completed :
           IsTimeout(r) => (TIMEOUT_HOURS > 0 /\ r.duration_minutes >= TIMEOUT_HOURS * 60)

\* an order timed out by age in the main loop although ENABLE_TIMEOUT is off
C7_Witness ==
    /\ ~ENABLE_TIMEOUT
    /\ pc = "loop"
    /\ \E r \in Completed : IsTimeout(r)

\* C8: on one candle check_tp_sl_hit answers TP at tp_price whenever the
\* take-profit side is touched (also when the stop-loss side is touched on
\* the same candle), else SL at sl_price when the stop-loss side is touched,
\* else nothing; LONG reads high for TP and low for SL, SHORT the reverse.
C8_TpBeforeSl ==
    \A c \in checked :
        LET tp_touched == IF c.signal_type = "LONG" THEN c.candle.high >= c.tp_price
                                                    ELSE c.candle.low <= c.tp_price
            sl_touched == IF c.signal_type = "LONG" THEN c.candle.low <= c.sl_price
                                                    ELSE c.candle.high >= c.sl_price
        IN  /\ tp_touched => c.result = [hit_type |-> "TP", exit_price |-> c.tp_price]
            /\ (~tp_touched /\ sl_touched) =>
                  c.result = [hit_type |-> "SL", exit_price |-> c.sl_price]
            /\ (~tp_touched /\ ~sl_touched) => c.result.hit_type = "None"

\* a candle that touches both sides of a LONG order was answered with TP
C8_Witness ==
    \E c \in checked :
        /\ c.signal_type = "LONG"
        /\ c.candle.high >= c.tp_price
        /\ c.candle.low <= c.sl_price
        /\ c.result.hit_type = "TP"

C10_TimeoutVerdict ==
    /\ [](\A r \in Completed :
            IsTimeout(r) =>
               (r.result = "WIN" <=>
                   IF r.signal_type = "LONG" THEN r.exit_price >= r.tp_price
                                             ELSE r.exit_price <= r.tp_price)
               /\ r.result \in {"WIN", "LOSS"})
    /\ [][\A j \in (Len(completed_orders) + 1)..Len(completed_orders') :
             IsTimeout(completed_orders'[j]) =>
                /\ completed_orders'[j].exit_price = df'[3].close
                /\ completed_orders'[j].exit_time = df'[3].timestamp]_vars

\* a LONG trade timed out as a WIN and a SHORT trade timed out as a LOSS
C10_Witness ==
    /\ \E r \in Completed : IsTimeout(r) /\ r.signal_type = "LONG" /\ r.result = "WIN"
    /\ \E r \in Completed : IsTimeout(r) /\ r.signal_type = "SHORT" /\ r.result = "LOSS"

C12_InsideBarRule ==
    detected # << >> =>
        LET C1 == df[1]
            C2 == df[2]
            C3 == df[3]
            r == detected[1].inside_bar
            s == detected[1].signal
            range1 == Abs(C1.close - C1.open)
            range2 == Abs(C2.close - C2.open)
            combined == Abs(C2.open - C3.close)
            up(c) == c.close > c.open
            down(c) == c.close < c.open
            sized == range2 < range1 /\ range1 < combined
        IN  /\ r = "SHORT" <=> (up(C1) /\ down(C2) /\ down(C3) /\ sized)
            /\ r = "LONG" <=> (down(C1) /\ up(C2) /\ up(C3) /\ sized)
            /\ r \in {"SHORT", "LONG", "None"}
            /\ (s.signal_type # "None" /\ s.condition = "INSIDE_BAR") =>
                  (s.entry_price = C3.close /\ s.signal_type = r)

\* an inside-bar LONG became the signal
C12_Witness ==
    /\ detected # << >>
    /\ detected[1].inside_bar = "LONG"
    /\ detected[1].signal.signal_type = "LONG"
    /\ detected[1].signal.condition = "INSIDE_BAR"

\* C13: the timestamp of a detected signal is the newest row's timestamp plus
\* one period of the timeframe the backtester was built with.
C13_TimestampOnePeriod ==
    (detected # << >> /\ detected[1].signal.signal_type # "None") =>
        detected[1].signal.timestamp = df[3].timestamp + _get_timeframe_minutes(timeframe)

\* C14: for one entry and exit price the LONG pnl is exit - entry, the SHORT
\* pnl is entry - exit, and each is the negative of the other.
C14_PnlAntisymmetric ==
    pnl_pair # << >> =>
        LET p == pnl_pair[1]
        IN  /\ p.long = p.exit_price - p.entry_price
            /\ p.short = p.entry_price - p.exit_price
            /\ p.long = 0 - p.short

\* both sides computed for an exit above the entry
C14_Witness ==
    /\ pnl_pair # << >>
    /\ pnl_pair[1].exit_price > pnl_pair[1].entry_price
    /\ pnl_pair[1].long > 0
    /\ pnl_pair[1].short < 0

\* the number of records of a list with result WIN
WinsOf(rs) == Cardinality({ i \in 1..Len(rs) : rs[i].result = "WIN" })

\* C15: for a non-empty list calculate_win_rate returns total_trades = its
\* length, wins = the number of WIN records, losses = total_trades - wins
\* and win_rate = 100 * wins / total_trades (60 for 3 WIN and 2 LOSS); for
\* the empty list every statistic is zero.
C15_WinRate ==
    stats # << >> =>
        LET st == stats[1]
            n == Len(results)
            w == WinsOf(results)
        IN  IF n = 0
            THEN /\ st.total_trades = 0 /\ st.wins = 0 /\ st.losses = 0
                 /\ st.win_rate[1] = 0 /\ st.win_rate[2] # 0
                 /\ st.total_pnl = 0
                 /\ st.avg_win[1] = 0 /\ st.avg_loss[1] = 0
            ELSE /\ st.total_trades = n
                 /\ st.wins = w
                 /\ st.losses = n - w
                 /\ st.win_rate[2] # 0
                 /\ st.win_rate[1] * n = 100 * w * st.win_rate[2]
                 /\ (w = 3 /\ n = 5) => st.win_rate[1] = 60 * st.win_rate[2]

\* 3 WIN and 2 LOSS were analysed, one of the losses with a positive pnl
C15_Witness ==
    /\ stats # << >>
    /\ Len(results) = 5
    /\ WinsOf(results) = 3
    /\ \E i \in 1..Len(results) : results[i].result = "LOSS" /\ results[i].pnl > 0

\* the time of day t (in minutes) lies in the configured trading window
InsideWindow(t) ==
    LET start == TRADE_START_TIME[1] * 60 + TRADE_START_TIME[2]
        end == TRADE_END_TIME[1] * 60 + TRADE_END_TIME[2]
    IN  IF start <= end THEN start <= t /\ t <= end
                        ELSE t >= start \/ t <= end

C17_ReturnedInExitOrder ==
    pc = "returned" =>
        \A i \in 1..Len(returned), j \in 1..Len(returned) :
            i < j => returned[i].exit_time <= returned[j].exit_time

\* C18: in any time interval of length period at most max_calls calls
\* return from wait().
C18_RateHeld ==
    \A i \in 1..Len(leaves) :
        Cardinality({ j \in 1..Len(leaves) :
                        leaves[i] <= leaves[j] /\ leaves[j] < leaves[i] + period })
          <= max_calls

\* C19 (as claimed): get_remaining_calls and get_reset_time leave the calls
\* deque as it was.
C19_ReadOnly ==
    [][\A t \in Threads :
          (get_remaining_calls(t) \/ get_reset_time(t)) => calls' = calls]_vars

\* C19 (amended): get_reset_time leaves the calls deque as it was;
\* get_remaining_calls only pops entries from its front, each of them a call
\* that has left the window (now - t >= period), and neither of the two
\* records a call.
C19_OnlyExpiredDropped ==
    [][\A t \in Threads :
          /\ get_reset_time(t) => calls' = calls
          /\ get_remaining_calls(t) =>
                \E k \in 0..Len(calls) :
                   /\ calls' = SubSeq(calls, k + 1, Len(calls))
                   /\ \A i \in 1..k : clock - calls[i] >= period]_vars

\* get_remaining_calls dropped an expired call while a live one stayed
C19_Witness ==
    /\ answer # << >>
    /\ answer[1].op = "get_remaining_calls"
    /\ answer[1].dropped > 0
    /\ calls # << >>

\* C20: orders are resolved against the 1-minute series only when it has no
\* missing bars: when a row is handed to check_tp_sl_hit for an order, every
\* earlier minute of the signal period after the order's entry had a row
\* that was handed over as well.
C20_NoMissingBars ==
    \A c \in checked :
        \A m \in (c.current_time - _get_timeframe_minutes(timeframe) + 1)
                   ..(c.candle.timestamp - 1) :
            m > c.entry_time =>
                \E b \in checked : b.entry_time = c.entry_time /\ b.candle.timestamp = m

\* C21: within one step of the main loop admission comes before resolution:
\* a step that starts with an active order in single-order mode admits
\* nothing even when that order closes in the same step, no record written
\* by a TP/SL check in a step belongs to an order admitted in that step, and
\* an order admitted in a step is still active when the step ends.
C21_AdmitBeforeResolve ==
    [][(pc = "loop" /\ current_index' = current_index + 1) =>
          LET current_time == df'[3].timestamp
              fresh == SubSeq(completed_orders', Len(completed_orders) + 1,
                              Len(completed_orders'))
          IN  /\ (ENABLE_SINGLE_ORDER_MODE /\ Len(active_orders) > 0) =>
                    /\ current_time \notin admitted'
                    /\ \A i \in 1..Len(active_orders') :
                          active_orders'[i].entry_time < current_time
              /\ \A i \in 1..Len(fresh) :
                    fresh[i].hit_type \in {"TP", "SL"} =>
                        fresh[i].entry_time < current_time
              /\ current_time \in admitted' =>
                    \E i \in 1..Len(active_orders') :
                        active_orders'[i].entry_time = current_time]_vars

\* single-order mode: the latest step detected an engulfing signal while the
\* only active order was closed by a 1-minute hit in that same step, and the
\* signal was not admitted although the list is empty now
C21_Witness ==
    /\ ENABLE_SINGLE_ORDER_MODE
    /\ pc = "loop"
    /\ current_index > 3
    /\ _check_engulfing_pattern(df[1], df[2]) # "None"
    /\ active_orders = << >>
    /\ df[3].timestamp \notin admitted
    /\ \E c \in checked :
          /\ c.current_time = df[3].timestamp
          /\ c.result.hit_type # "None"

\* the series with the wicks of row i moved, open and close kept
WithWicks(rows, i, above, below) ==
    [rows EXCEPT ![i].high = Max2(rows[i].open, rows[i].close) + above,
                 ![i].low = Min2(rows[i].open, rows[i].close) - below]

\* C22: the trend is down at the first row; at a later row it is up exactly
\* when the previous trend was down and max(open, close) exceeds the previous
\* row's final dn band, or the previous trend was up and min(open, close) is
\* not below the previous row's final up band; the wicks of the row have no
\* say in it; the line is the up band in an uptrend, the dn band otherwise.
C22_BodyCrossing ==
    /\ Len(trend_df) = Len(series)
    /\ Len(trend_df) > 0 => trend_df[1].trend = -1
    /\ \A i \in 2..Len(trend_df) :
          LET top == Max2(series[i].open, series[i].close) * BandUnit
              bottom == Min2(series[i].open, series[i].close) * BandUnit
          IN  /\ trend_df[i].trend \in {-1, 1}
              /\ trend_df[i].trend = 1 <=>
                    \/ trend_df[i - 1].trend = -1 /\ top > trend_df[i - 1].dn
                    \/ trend_df[i - 1].trend = 1 /\ ~(bottom < trend_df[i - 1].up)
              /\ \A above \in Wicks, below \in Wicks :
                    calculate_supertrend_precision(
                        WithWicks(series, i, above, below))[i].trend = trend_df[i].trend
    /\ \A i \in 1..Len(trend_df) :
          /\ trend_df[i].supertrend_line = IF trend_df[i].trend = 1 THEN trend_df[i].up ELSE trend_df[i].dn
          /\ trend_df[i].trend_direction = IF trend_df[i].trend = 1 THEN "UP" ELSE "DN"

\* the trend went up and came down again, and a row whose upper wick was
\* above the previous dn band while its body was not left the trend down
C22_Witness ==
    /\ \E i \in 2..Len(trend_df), j \in 2..Len(trend_df) :
          /\ trend_df[i - 1].trend = -1 /\ trend_df[i].trend = 1
          /\ trend_df[j - 1].trend = 1 /\ trend_df[j].trend = -1
    /\ \E i \in 2..Len(trend_df) :
          /\ trend_df[i - 1].trend = -1
          /\ trend_df[i].trend = -1
          /\ series[i].high * BandUnit > trend_df[i - 1].dn

\* C23: _calculate_confidence returns a whole number from 10 to 95: 50 when
\* no candle of the call has trend data, and otherwise a distance score from
\* 0 to 100, lowered by 25 but not below 10 when the signal runs against the
\* trend of a candle of the call, raised by 5 but not above 95 for ENGULFING,
\* and clamped to 10..95 at the end.
C23_ConfidenceRange ==
    scored # << >> =>
        LET call == scored[1]
            known == { i \in 1..Len(call.candles) :
                          call.candles[i].timestamp \in DOMAIN call.supertrend_data }
            Aligned(i) ==
                LET trend == call.supertrend_data[call.candles[i].timestamp].trend
                IN  \/ call.signal_type = "LONG" /\ trend = 1
                    \/ call.signal_type = "SHORT" /\ trend = -1
            Final(score, aligned) ==
                LET adjusted == IF aligned THEN score
                                ELSE (IF score - 25 < 10 THEN 10 ELSE score - 25)
                    bonus == IF call.pattern_type # "ENGULFING" THEN adjusted
                             ELSE (IF adjusted + 5 > 95 THEN 95 ELSE adjusted + 5)
                IN  IF bonus > 95 THEN 95 ELSE IF bonus < 10 THEN 10 ELSE bonus
        IN  /\ call.confidence \in 10..95
            /\ known = {} => call.confidence = 50
            /\ known # {} =>
                  \E score \in 0..100, i \in known :
                      call.confidence = Final(score, Aligned(i))

\* an aligned INSIDE_BAR call whose closest candle is 0.5 % or more away
\* from the line: the distance score is 0 and the floor of 10 is returned
C23_Witness ==
    /\ scored # << >>
    /\ scored[1].pattern_type = "INSIDE_BAR"
    /\ scored[1].signal_type = "LONG"
    /\ Len(scored[1].candles) > 0
    /\ \A i \in 1..Len(scored[1].candles) :
          /\ scored[1].candles[i].timestamp \in DOMAIN scored[1].supertrend_data
          /\ scored[1].supertrend_data[scored[1].candles[i].timestamp].trend = 1
    /\ scored[1].confidence = 10

\* C24: on a frame sorted descending scan_for_signals returns nothing when
\* the frame has fewer than start_index + 1 rows; otherwise it visits every
\* position i from start_index to min(end_index, len - 1) in ascending
\* order, hands detect_signal the rows at i - 1 (oldest), i - 2 and i - 3
\* (newest), and returns exactly the signals found, in that order, so at
\* most end_index - start_index + 1 of them.
C24_ScanWindow ==
    (scanned # << >> /\ scanned[1].caller = "scan") =>
        LET scan == scanned[1]
            len == Len(scan.df)
            last == IF scan.end_index = << >> \/ scan.end_index[1] > len - 1
                    THEN len - 1 ELSE scan.end_index[1]
            visits == IF last < scan.start_index THEN 0
                      ELSE last - scan.start_index + 1
            found == [k \in 1..Len(scan.calls) |->
                         detect_signal(scan.calls[k].n1, scan.calls[k].n2,
                                       scan.calls[k].n3)]
        IN  IF len < scan.start_index + 1
            THEN scan.calls = << >> /\ scan.signals = << >>
            ELSE /\ Len(scan.calls) = visits
                 /\ \A k \in 1..Len(scan.calls) :
                       LET i == scan.start_index + k - 1
                       IN  /\ scan.calls[k].i = i
                           /\ scan.calls[k].n1 = scan.df[i]
                           /\ scan.calls[k].n2 = scan.df[i - 1]
                           /\ scan.calls[k].n3 = scan.df[i - 2]
                 /\ scan.signals = SelectSeq(found, IsSignal)
                 /\ scan.end_index # << >> =>
                       Len(scan.signals) <= scan.end_index[1] - scan.start_index + 1

\* a scan cut short by end_index that visited several positions and found
\* a signal at some of them but not at all of them
C24_Witness ==
    /\ scanned # << >>
    /\ scanned[1].caller = "scan"
    /\ scanned[1].end_index # << >>
    /\ scanned[1].end_index[1] < Len(scanned[1].df) - 1
    /\ Len(scanned[1].calls) >= 2
    /\ Len(scanned[1].signals) >= 1
    /\ Len(scanned[1].signals) < Len(scanned[1].calls)

\* C25: in the daemon's auto-detection the rows handed to detect_signal are
\* the closed candles at positions 1, 2 and 3 of the descending frame; the
\* row at position 0, the candle still being formed, is never handed over.
C25_ClosedCandlesOnly ==
    (scanned # << >> /\ scanned[1].caller = "daemon") =>
        \A k \in 1..Len(scanned[1].calls) :
            LET call == scanned[1].calls[k]
            IN  /\ scanned[1].df[1] \notin {call.n1, call.n2, call.n3}
                /\ {call.n1, call.n2, call.n3} =
                       {scanned[1].df[2], scanned[1].df[3], scanned[1].df[4]}

\* C26: the two pattern rules never both answer with a signal for the same
\* three rows, so the signal detect_signal returns is the one it would
\* return if the inside-bar rule were tried before the engulfing rule.
C26_RulesExclusive ==
    detected # << >> =>
        LET d == detected[1]
            inside_first == IF d.inside_bar # "None"
                            THEN << d.inside_bar, "INSIDE_BAR" >>
                            ELSE IF d.engulfing # "None"
                            THEN << d.engulfing, "ENGULFING" >>
                            ELSE << "None", "None" >>
            returned_pair == IF d.signal.signal_type = "None"
                             THEN << "None", "None" >>
                             ELSE << d.signal.signal_type, d.signal.condition >>
        IN  /\ ~(d.engulfing # "None" /\ d.inside_bar # "None")
            /\ returned_pair = inside_first

\* the inside-bar rule answered SHORT while the engulfing rule, looking at
\* two red rows, answered nothing
C26_Witness ==
    /\ detected # << >>
    /\ detected[1].inside_bar = "SHORT"
    /\ detected[1].engulfing = "None"
    /\ is_red_candle(df[2]) /\ is_red_candle(df[3])
    /\ detected[1].signal.condition = "INSIDE_BAR"

\* C27: whatever closed a trade, its result is WIN exactly when its pnl is
\* at least TP_AMOUNT, so a WIN has a positive pnl and a LOSS is any trade
\* whose pnl stays below TP_AMOUNT.
C27_WinIffTarget ==
    \A r \in Completed :
        /\ r.result \in {"WIN", "LOSS"}
        /\ r.result = "WIN" <=> r.pnl >= TP_AMOUNT
        /\ r.result = "WIN" => r.pnl > 0
        /\ r.result = "LOSS" <=> r.pnl < TP_AMOUNT

\* the list holds a TP win, a timed-out trade that closed at its target
\* and a timed-out trade that fell short of it
C27_Witness ==
    /\ \E r \in Completed : r.hit_type = "TP" /\ r.result = "WIN"
    /\ \E r \in Completed : IsTimeout(r) /\ r.pnl >= TP_AMOUNT /\ r.result = "WIN"
    /\ \E r \in Completed : IsTimeout(r) /\ r.pnl < TP_AMOUNT /\ r.result = "LOSS"

\* a 1-minute row that meets the TP or the SL condition of a trade
Touches(c, r) ==
    check_tp_sl_hit(c, r.tp_price, r.sl_price, r.signal_type).hit_type # "None"

\* C28: no hit is skipped: when a trade is completed by TP or SL on the
\* 1-minute row at t, no 1-minute row strictly between its entry_time and t
\* meets its TP or SL condition, also when the signal series has gaps.
C28_NoHitSkipped ==
    \A r \in Completed :
        r.hit_type \in {"TP", "SL"} =>
            \A i \in 1..Len(df_1m_rows) :
                (df_1m_rows[i].timestamp > r.entry_time /\ df_1m_rows[i].timestamp < r.exit_time)
                    => ~Touches(df_1m_rows[i], r)

\* C29: a trade is closed as TIMEOUT by the age rule at the signal row of
\* time T only if no 1-minute row after its entry_time and up to T meets
\* its TP or SL condition.
C29_TimeoutOnlyUntouched ==
    pc = "loop" =>
        \A r \in Completed :
            IsTimeout(r) =>
                \A i \in 1..Len(df_1m_rows) :
                    (df_1m_rows[i].timestamp > r.entry_time
                        /\ df_1m_rows[i].timestamp <= r.exit_time)
                        => ~Touches(df_1m_rows[i], r)

\* C30: however the start() calls of several processes interleave, at most
\* one process at a time is inside _run_daemon_loop, and while a process is
\* in the loop the PID file exists and names it, so is_running() answers
\* True.
C30_SingleInstance ==
    /\ Cardinality({ p \in Procs : dpc[p] = "loop" }) <= 1
    /\ \A p \in Procs : dpc[p] = "loop" => (pid_file = << p >> /\ is_running)

====
